---------------------------- MODULE Spec2Model ----------------------------
(***************************************************************************)
(* Beer-baseball rules engine (backend/game_engine.py) behind its Flask    *)
(* entry points (backend/app.py) and the unit of work of                   *)
(* backend/database.py.                                                    *)
(*                                                                         *)
(* One game row, its PlayerGameStats rows and its GameEvent log are the    *)
(* persistent state.  A request is handled in one step: the handler opens  *)
(* a session on the database, runs the engine on the session's objects and *)
(* session_scope commits or rolls back when the with-block is left.        *)
(*                                                                         *)
(* Reading of the ORM used throughout: a column holds its declared default *)
(* (models.py) from the moment the row object is built; a query does not   *)
(* see rows that were added to the session and not yet flushed             *)
(* (autoflush=False, database.py:9); a flush that would leave two rows for *)
(* the same (player, game) violates uix_player_game (models.py:144) and    *)
(* raises.                                                                 *)
(*                                                                         *)
(* Three specifications share the handlers: Spec serves well-formed and    *)
(* unknown-outcome requests one at a time; TransportSpec serves the         *)
(* requests that cannot be served (unknown game or player, no outcome,     *)
(* counts that are no integers); ConcurrentSpec serves requests on two     *)
(* threads, the reads of a handler and its commit being separate steps.    *)
(***************************************************************************)
EXTENDS Integers, Sequences, FiniteSets, TLC

\* ------------------------------------------------------------------ bounds
\* Requests served by the engine in one run, after the warm-up.
MaxOps == 2

\* ------------------------------------------------------------- identities
Players == 1..4
\* None: an empty role slot, an absent override.
NoPlayer == 0
\* The one game of the model.
GameId == 1

ShotOutcomes == {"first", "second", "third", "home", "grandslam", "strike", "out"}
StealOutcomes == {"success", "bonus", "fail"}
BuntOutcomes == {"success", "bonus", "fail"}
\* An outcome code no branch of the engine recognises.
UnknownOutcome == "foul"

\* ------------------------------------------------------------------ state
VARIABLES
    game,      \* the Game row (models.py Game)
    stats,     \* player id -> the counters of the player's PlayerGameStats row
    stat_keys, \* the player_id column of the player_game_stats table, row by row
    events,    \* the GameEvent rows of the game, in insertion order
    history,   \* the requests handled so far, each with its response
    served,    \* requests served since the start of the run
    sessions,  \* per server thread: the request it is handling and what it loaded
    origin     \* the database when the run began

vars == <<game, stats, stat_keys, events, history, served, sessions, origin>>

\* Game(...) as create_game builds it: column defaults, the four role ids given.
NewGame(roles) ==
    [ inning |-> 1, half |-> "top", outs |-> 0, strikes |-> 0,
      home_score |-> 0, away_score |-> 0,
      first_base |-> FALSE, second_base |-> FALSE, third_base |-> FALSE,
      status |-> "scheduled",
      offensive_shooter_id |-> roles[1], offensive_drinker_id |-> roles[2],
      defensive_catcher_id |-> roles[3], defensive_drinker_id |-> roles[4] ]

\* PlayerGameStats(game=game, player=player): every counter at its default.
NewStats ==
    [ points_for |-> 0, points_against |-> 0, shots_taken |-> 0,
      shots_first |-> 0, shots_second |-> 0, shots_third |-> 0, shots_home |-> 0,
      shots_grandslam |-> 0, shots_strike |-> 0, shots_out |-> 0,
      steals_success |-> 0, steals_bonus |-> 0, steals_fail |-> 0,
      bunts_success |-> 0, bunts_bonus |-> 0, bunts_fail |-> 0,
      catches_made |-> 0, catches_missed |-> 0,
      knocks_first |-> 0, knocks_second |-> 0, knocks_third |-> 0 ]

\* ----------------------------------------------------------------- session
Range(seq) == {seq[i] : i \in DOMAIN seq}

\* session_scope(): the session's view of the database.  pending: the players of
\* the stats rows added and not flushed, one entry per row; exc: the exception
\* in flight; out_calls: runs of the out sub-rule so far.
OpenSession(db) ==
    [ game |-> db.game, stats |-> db.stats, stat_keys |-> db.stat_keys,
      events |-> db.events,
      pending |-> <<>>, exc |-> "none", out_calls |-> 0 ]

Raise(s, e) == [s EXCEPT !.exc = e]

\* uix_player_game: TRUE when inserting the pending rows would break it.
UniqueViolation(s) ==
    \E i \in DOMAIN s.pending :
        \/ s.pending[i] \in Range(s.stat_keys)
        \/ \E j \in DOMAIN s.pending : j # i /\ s.pending[j] = s.pending[i]

\* Mutant of Flush: the table has no unique constraint.
Flush_unconstrained(s) ==
    [s EXCEPT !.stat_keys = @ \o s.pending, !.pending = <<>>]

\* session.flush(): inserts the pending rows, unless the unique constraint
\* rejects them.
Flush(s) ==
    IF UniqueViolation(s)
    THEN Raise(s, "IntegrityError")
    ELSE [s EXCEPT !.stat_keys = @ \o s.pending, !.pending = <<>>]

\* Mutant of get_or_create_stats: the row found is handed back with its counters
\* at their defaults.
get_or_create_stats_fresh(s, player) ==
    IF player \in Range(s.stat_keys)
    THEN [s EXCEPT !.stats[player] = NewStats]
    ELSE [s EXCEPT !.stats = IF player \in DOMAIN @ THEN @
                              ELSE (player :> NewStats) @@ @,
                   !.pending = Append(@, player)]

\* _get_or_create_stats for a player that is not None: the query sees the
\* flushed rows only; without one a new row object is added to the session.
get_or_create_stats(s, player) ==
    IF player \in Range(s.stat_keys)
    THEN s
    ELSE [s EXCEPT !.stats = IF player \in DOMAIN @ THEN @
                              ELSE (player :> NewStats) @@ @,
                   !.pending = Append(@, player)]

\* stats.<counter> += 1
Bump(s, player, counter) ==
    [s EXCEPT !.stats[player][counter] = @ + 1]

\* GameEvent(...): created_at is the clock when the row is built; the clock of
\* the model is the number of records built so far, so it rises from one record
\* to the next.
GameEvent(s, event_type, outcome, offense, defense, metadata) ==
    [ event_type |-> event_type, outcome |-> outcome,
      offense_player_id |-> offense, defense_player_id |-> defense,
      metadata |-> metadata, created_at |-> Len(s.events) + 1 ]

\* Mutant of log_event: the new record takes the place of the last one.
log_event_replaces_last(s, event_type, outcome, offense, defense, metadata) ==
    LET event == GameEvent(s, event_type, outcome, offense, defense, metadata)
    IN [s EXCEPT !.events = IF @ = <<>> THEN <<event>>
                              ELSE [@ EXCEPT ![Len(@)] = event]]

\* GameEngine._log_event
log_event(s, event_type, outcome, offense, defense, metadata) ==
    [s EXCEPT !.events = Append(@,
        GameEvent(s, event_type, outcome, offense, defense, metadata))]

\* GameEngine._mark_in_progress
mark_in_progress(s) ==
    IF s.game.status = "scheduled"
    THEN [s EXCEPT !.game.status = "in_progress"]
    ELSE s

\* GameEngine._validate_players: TRUE when it raises.
validate_players_raises(offense, defense) ==
    offense = NoPlayer \/ defense = NoPlayer

\* GameEngine._refresh_scores
refresh_scores(s) == Flush(s)

\* Mutant of score_run: every run is credited to the away side.
score_run_always_away(s, player) ==
    Bump([s EXCEPT !.game.away_score = @ + 1], player, "points_for")

\* Mutant of score_run: the home branch written with `-=`.
score_run_home_minus(s, player) ==
    LET g == IF s.game.half = "top"
             THEN [s.game EXCEPT !.away_score = @ + 1]
             ELSE [s.game EXCEPT !.home_score = @ - 1]
    IN Bump([s EXCEPT !.game = g], player, "points_for")

\* Mutant of score_run: the run is counted for the side and for no player.
score_run_uncredited(s, player) ==
    LET g == IF s.game.half = "top"
             THEN [s.game EXCEPT !.away_score = @ + 1]
             ELSE [s.game EXCEPT !.home_score = @ + 1]
    IN [s EXCEPT !.game = g]

\* GameEngine._score_run
score_run(s, player) ==
    LET g == IF s.game.half = "top"
             THEN [s.game EXCEPT !.away_score = @ + 1]
             ELSE [s.game EXCEPT !.home_score = @ + 1]
    IN Bump([s EXCEPT !.game = g], player, "points_for")

\* `if flag: self._score_run(player, stats)`
score_if(flag, s, player) == IF flag THEN score_run(s, player) ELSE s

\* Mutant of swap_roles: role_b is set from role_a after role_a was overwritten.
swap_roles_no_temp(s, role_a, role_b) ==
    LET current_b == s.game[role_b]
    IN [s EXCEPT !.game[role_a] = current_b, !.game[role_b] = current_b]

\* GameEngine._swap_roles
swap_roles(s, role_a, role_b) ==
    LET current_a == s.game[role_a]
        current_b == s.game[role_b]
    IN [s EXCEPT !.game[role_a] = current_b, !.game[role_b] = current_a]

\* Mutant of increment_outs: the first out leaves the strike count standing.
increment_outs_first_keeps_strikes(s) ==
    LET s1 == [s EXCEPT !.game.outs = @ + 1, !.out_calls = @ + 1]
    IN IF s1.game.outs = 1
       THEN LET s2 == swap_roles(s1, "offensive_shooter_id", "offensive_drinker_id")
            IN log_event(s2, "rotation", "swap_offense", NoPlayer, NoPlayer, <<>>)
       ELSE LET s2 == swap_roles(s1, "defensive_drinker_id", "offensive_drinker_id")
                s3 == swap_roles(s2, "offensive_shooter_id", "defensive_catcher_id")
                s4 == [s3 EXCEPT !.game.outs = 0, !.game.strikes = 0,
                                 !.game.half = IF @ = "top" THEN "bottom" ELSE "top"]
                s5 == IF s4.game.half = "top"
                      THEN [s4 EXCEPT !.game.inning = @ + 1]
                      ELSE s4
            IN log_event(s5, "rotation", "full_rotation", NoPlayer, NoPlayer, <<>>)

\* Mutant of increment_outs: the full rotation sends the shooter to the
\* defensive drinker's slot instead of the catcher's.
increment_outs_rotation_wrong_pair(s) ==
    LET s1 == [s EXCEPT !.game.outs = @ + 1, !.out_calls = @ + 1]
    IN IF s1.game.outs = 1
       THEN LET s2 == swap_roles(s1, "offensive_shooter_id", "offensive_drinker_id")
                s3 == [s2 EXCEPT !.game.strikes = 0]
            IN log_event(s3, "rotation", "swap_offense", NoPlayer, NoPlayer, <<>>)
       ELSE LET s2 == swap_roles(s1, "defensive_drinker_id", "offensive_drinker_id")
                s3 == swap_roles(s2, "offensive_shooter_id", "defensive_drinker_id")
                s4 == [s3 EXCEPT !.game.outs = 0, !.game.strikes = 0,
                                 !.game.half = IF @ = "top" THEN "bottom" ELSE "top"]
                s5 == IF s4.game.half = "top"
                      THEN [s4 EXCEPT !.game.inning = @ + 1]
                      ELSE s4
            IN log_event(s5, "rotation", "full_rotation", NoPlayer, NoPlayer, <<>>)

\* Mutant of increment_outs: the sides change on the third out, so the second
\* out is stored.
increment_outs_three_outs(s) ==
    LET s1 == [s EXCEPT !.game.outs = @ + 1, !.out_calls = @ + 1]
    IN IF s1.game.outs = 1
       THEN LET s2 == swap_roles(s1, "offensive_shooter_id", "offensive_drinker_id")
                s3 == [s2 EXCEPT !.game.strikes = 0]
            IN log_event(s3, "rotation", "swap_offense", NoPlayer, NoPlayer, <<>>)
       ELSE IF s1.game.outs >= 3
       THEN LET s2 == swap_roles(s1, "defensive_drinker_id", "offensive_drinker_id")
                s3 == swap_roles(s2, "offensive_shooter_id", "defensive_catcher_id")
                s4 == [s3 EXCEPT !.game.outs = 0, !.game.strikes = 0,
                                 !.game.half = IF @ = "top" THEN "bottom" ELSE "top"]
                s5 == IF s4.game.half = "top"
                      THEN [s4 EXCEPT !.game.inning = @ + 1]
                      ELSE s4
            IN log_event(s5, "rotation", "full_rotation", NoPlayer, NoPlayer, <<>>)
       ELSE [s1 EXCEPT !.game.strikes = 0]

\* Mutant of increment_outs: the full rotation exchanges the two drinkers and
\* leaves shooter and catcher where they are.
increment_outs_drinkers_only(s) ==
    LET s1 == [s EXCEPT !.game.outs = @ + 1, !.out_calls = @ + 1]
    IN IF s1.game.outs = 1
       THEN LET s2 == swap_roles(s1, "offensive_shooter_id", "offensive_drinker_id")
                s3 == [s2 EXCEPT !.game.strikes = 0]
            IN log_event(s3, "rotation", "swap_offense", NoPlayer, NoPlayer, <<>>)
       ELSE IF s1.game.outs >= 2
       THEN LET s2 == swap_roles(s1, "defensive_drinker_id", "offensive_drinker_id")
                s4 == [s2 EXCEPT !.game.outs = 0, !.game.strikes = 0,
                                 !.game.half = IF @ = "top" THEN "bottom" ELSE "top"]
                s5 == IF s4.game.half = "top"
                      THEN [s4 EXCEPT !.game.inning = @ + 1]
                      ELSE s4
            IN log_event(s5, "rotation", "full_rotation", NoPlayer, NoPlayer, <<>>)
       ELSE [s1 EXCEPT !.game.strikes = 0]

\* Mutant of increment_outs: the full rotation forgets `self.game.outs = 0`.
increment_outs_no_reset(s) ==
    LET s1 == [s EXCEPT !.game.outs = @ + 1, !.out_calls = @ + 1]
    IN IF s1.game.outs = 1
       THEN LET s2 == swap_roles(s1, "offensive_shooter_id", "offensive_drinker_id")
                s3 == [s2 EXCEPT !.game.strikes = 0]
            IN log_event(s3, "rotation", "swap_offense", NoPlayer, NoPlayer, <<>>)
       ELSE LET s2 == swap_roles(s1, "defensive_drinker_id", "offensive_drinker_id")
                s3 == swap_roles(s2, "offensive_shooter_id", "defensive_catcher_id")
                s4 == [s3 EXCEPT !.game.strikes = 0,
                                 !.game.half = IF @ = "top" THEN "bottom" ELSE "top"]
                s5 == IF s4.game.half = "top"
                      THEN [s4 EXCEPT !.game.inning = @ + 1]
                      ELSE s4
            IN log_event(s5, "rotation", "full_rotation", NoPlayer, NoPlayer, <<>>)

\* Mutant of increment_outs: inning is incremented on every change of sides.
increment_outs_inning_each_flip(s) ==
    LET s1 == [s EXCEPT !.game.outs = @ + 1, !.out_calls = @ + 1]
    IN IF s1.game.outs = 1
       THEN LET s2 == swap_roles(s1, "offensive_shooter_id", "offensive_drinker_id")
                s3 == [s2 EXCEPT !.game.strikes = 0]
            IN log_event(s3, "rotation", "swap_offense", NoPlayer, NoPlayer, <<>>)
       ELSE LET s2 == swap_roles(s1, "defensive_drinker_id", "offensive_drinker_id")
                s3 == swap_roles(s2, "offensive_shooter_id", "defensive_catcher_id")
                s4 == [s3 EXCEPT !.game.outs = 0, !.game.strikes = 0,
                                 !.game.half = IF @ = "top" THEN "bottom" ELSE "top",
                                 !.game.inning = @ + 1]
            IN log_event(s4, "rotation", "full_rotation", NoPlayer, NoPlayer, <<>>)

\* GameEngine._increment_outs
increment_outs(s) ==
    LET s1 == [s EXCEPT !.game.outs = @ + 1, !.out_calls = @ + 1]
    IN IF s1.game.outs = 1
       THEN LET s2 == swap_roles(s1, "offensive_shooter_id", "offensive_drinker_id")
                s3 == [s2 EXCEPT !.game.strikes = 0]
            IN log_event(s3, "rotation", "swap_offense", NoPlayer, NoPlayer, <<>>)
       ELSE IF s1.game.outs >= 2
       THEN LET s2 == swap_roles(s1, "defensive_drinker_id", "offensive_drinker_id")
                s3 == swap_roles(s2, "offensive_shooter_id", "defensive_catcher_id")
                s4 == [s3 EXCEPT !.game.outs = 0, !.game.strikes = 0,
                                 !.game.half = IF @ = "top" THEN "bottom" ELSE "top"]
                s5 == IF s4.game.half = "top"
                      THEN [s4 EXCEPT !.game.inning = @ + 1]
                      ELSE s4
            IN log_event(s5, "rotation", "full_rotation", NoPlayer, NoPlayer, <<>>)
       ELSE s1

\* Mutant of handle_strike: strikes are counted and never turned into an out.
handle_strike_never_out(s) ==
    [s EXCEPT !.game.strikes = @ + 1]

\* Mutant of handle_strike: the out is recorded one strike late.
handle_strike_late(s) ==
    IF s.game.strikes = 3
    THEN increment_outs(s)
    ELSE [s EXCEPT !.game.strikes = @ + 1]

\* GameEngine._handle_strike
handle_strike(s) ==
    IF s.game.strikes = 2
    THEN increment_outs(s)
    ELSE [s EXCEPT !.game.strikes = @ + 1]

\* The tail of every _apply_*: the temp flags are assigned back, then the flush.
SetBases(s, temp_first, temp_second, temp_third) ==
    refresh_scores([s EXCEPT !.game.first_base = temp_first,
                             !.game.second_base = temp_second,
                             !.game.third_base = temp_third])

\* ------------------------------------------------------------ _apply_shot
\* outcome == "first"
shot_first(s, shooter) ==
    LET g  == s.game
        s1 == score_if(g.third_base, s, shooter)
        s2 == Bump(s1, shooter, "shots_first")
        s3 == [s2 EXCEPT !.game.strikes = 0]
    IN SetBases(s3, TRUE, g.first_base, g.second_base)

\* Mutant of shot_second: the runner on first is not advanced to third.
shot_second_runner_lost(s, shooter) ==
    LET g  == s.game
        s1 == score_if(g.second_base, s, shooter)
        s2 == score_if(g.third_base, s1, shooter)
        s3 == Bump(s2, shooter, "shots_second")
        s4 == [s3 EXCEPT !.game.strikes = 0]
    IN SetBases(s4, FALSE, TRUE, FALSE)

\* outcome == "second"
shot_second(s, shooter) ==
    LET g  == s.game
        s1 == score_if(g.second_base, s, shooter)
        s2 == score_if(g.third_base, s1, shooter)
        s3 == Bump(s2, shooter, "shots_second")
        s4 == [s3 EXCEPT !.game.strikes = 0]
    IN SetBases(s4, FALSE, TRUE, g.first_base)

\* outcome == "third"
shot_third(s, shooter) ==
    LET g  == s.game
        s1 == score_if(g.first_base, s, shooter)
        s2 == score_if(g.second_base, s1, shooter)
        s3 == score_if(g.third_base, s2, shooter)
        s4 == Bump(s3, shooter, "shots_third")
        s5 == [s4 EXCEPT !.game.strikes = 0]
    IN SetBases(s5, FALSE, FALSE, TRUE)

\* outcome == "home"
shot_home(s, shooter) ==
    LET g  == s.game
        s0 == score_run(s, shooter)
        s1 == score_if(g.first_base, s0, shooter)
        s2 == score_if(g.second_base, s1, shooter)
        s3 == score_if(g.third_base, s2, shooter)
        s4 == Bump(s3, shooter, "shots_home")
        s5 == [s4 EXCEPT !.game.strikes = 0]
    IN SetBases(s5, FALSE, FALSE, FALSE)

\* Mutant of shot_grandslam: scored like a home run, 1 + the occupied bases.
shot_grandslam_as_home(s, shooter) ==
    LET g  == s.game
        s0 == score_run(s, shooter)
        s1 == score_if(g.first_base, s0, shooter)
        s2 == score_if(g.second_base, s1, shooter)
        s3 == score_if(g.third_base, s2, shooter)
        s4 == Bump(s3, shooter, "shots_grandslam")
        s5 == [s4 EXCEPT !.game.strikes = 0]
    IN SetBases(s5, FALSE, FALSE, FALSE)

\* outcome == "grandslam": `for _ in range(4): self._score_run(...)`
shot_grandslam(s, shooter) ==
    LET s1 == score_run(score_run(score_run(score_run(s, shooter), shooter), shooter), shooter)
        s2 == Bump(s1, shooter, "shots_grandslam")
        s3 == [s2 EXCEPT !.game.strikes = 0]
    IN SetBases(s3, FALSE, FALSE, FALSE)

\* outcome == "strike": the temp flags are read after _handle_strike.
shot_strike(s, shooter, catcher) ==
    LET s1 == Bump(s, shooter, "shots_strike")
        s2 == Bump(s1, catcher, "catches_missed")
        s3 == handle_strike(s2)
    IN SetBases(s3, s3.game.first_base, s3.game.second_base, s3.game.third_base)

\* Mutant of shot_out: the temp flags keep their initial False, as for a failed
\* steal.
shot_out_clears_bases(s, shooter, catcher) ==
    LET s1 == Bump(s, shooter, "shots_out")
        s2 == Bump(s1, catcher, "catches_made")
        s3 == increment_outs(s2)
    IN SetBases(s3, FALSE, FALSE, FALSE)

\* Mutant of shot_out: the out is counted after the rotation, on the row of the
\* player who is then the shooter.
shot_out_credits_new_shooter(s, shooter, catcher) ==
    LET g  == s.game
        s1 == Bump(s, catcher, "catches_made")
        s2 == increment_outs(s1)
        p  == s2.game.offensive_shooter_id
        s3 == IF p = NoPlayer THEN s2
              ELSE Bump(get_or_create_stats(s2, p), p, "shots_out")
    IN SetBases(s3, g.first_base, g.second_base, g.third_base)

\* outcome == "out": the temp flags are read before _increment_outs.
shot_out(s, shooter, catcher) ==
    LET g  == s.game
        s1 == Bump(s, shooter, "shots_out")
        s2 == Bump(s1, catcher, "catches_made")
        s3 == increment_outs(s2)
    IN SetBases(s3, g.first_base, g.second_base, g.third_base)

\* GameEngine._apply_shot
apply_shot(s, outcome, shooter, catcher) ==
    LET s0 == Bump(s, shooter, "shots_taken")
    IN CASE outcome = "first"     -> shot_first(s0, shooter)
         [] outcome = "second"    -> shot_second(s0, shooter)
         [] outcome = "third"     -> shot_third(s0, shooter)
         [] outcome = "home"      -> shot_home(s0, shooter)
         [] outcome = "grandslam" -> shot_grandslam(s0, shooter)
         [] outcome = "strike"    -> shot_strike(s0, shooter, catcher)
         [] outcome = "out"       -> shot_out(s0, shooter, catcher)
         [] OTHER                 -> Raise(s0, "ValueError")

\* ----------------------------------------------------------- _apply_steal
\* outcome == "success"
steal_success(s, offense, defense) ==
    LET g  == s.game
        s1 == Bump(s, offense, "steals_success")
        s2 == Bump(s1, defense, "catches_missed")
        s3 == score_if(g.third_base, s2, offense)
    IN SetBases(s3, FALSE, g.first_base, g.second_base)

\* Mutant of steal_bonus: the runner from first stops at second.
steal_bonus_one_base(s, offense, defense) ==
    LET g  == s.game
        s1 == Bump(s, offense, "steals_bonus")
        s2 == Bump(s1, defense, "catches_missed")
        s3 == score_if(g.second_base, s2, offense)
        s4 == score_if(g.third_base, s3, offense)
    IN SetBases(s4, FALSE, g.first_base, FALSE)

\* outcome == "bonus"
steal_bonus(s, offense, defense) ==
    LET g  == s.game
        s1 == Bump(s, offense, "steals_bonus")
        s2 == Bump(s1, defense, "catches_missed")
        s3 == score_if(g.second_base, s2, offense)
        s4 == score_if(g.third_base, s3, offense)
    IN SetBases(s4, FALSE, FALSE, g.first_base)

\* Mutant of steal_fail: the bases are carried over, as for a shot "out".
steal_fail_keeps_bases(s, offense, defense) ==
    LET g  == s.game
        s1 == Bump(s, offense, "steals_fail")
        s2 == Bump(s1, defense, "catches_made")
        s3 == increment_outs(s2)
    IN SetBases(s3, g.first_base, g.second_base, g.third_base)

\* outcome == "fail": the temp flags keep their initial False.
steal_fail(s, offense, defense) ==
    LET s1 == Bump(s, offense, "steals_fail")
        s2 == Bump(s1, defense, "catches_made")
        s3 == increment_outs(s2)
    IN SetBases(s3, FALSE, FALSE, FALSE)

\* GameEngine._apply_steal
apply_steal(s, outcome, offense, defense) ==
    CASE outcome = "success" -> steal_success(s, offense, defense)
      [] outcome = "bonus"   -> steal_bonus(s, offense, defense)
      [] outcome = "fail"    -> steal_fail(s, offense, defense)
      [] OTHER               -> Raise(s, "ValueError")

\* ------------------------------------------------------------ _apply_bunt
\* Mutant of bunt_success: the strike count is left standing, as for a steal.
bunt_success_keeps_strikes(s, offense, defense) ==
    LET g  == s.game
        s1 == Bump(s, offense, "bunts_success")
        s2 == Bump(s1, defense, "catches_missed")
        s3 == score_if(g.third_base, s2, offense)
    IN SetBases(s3, TRUE, g.first_base, g.second_base)

\* outcome == "success"
bunt_success(s, offense, defense) ==
    LET g  == s.game
        s1 == Bump(s, offense, "bunts_success")
        s2 == Bump(s1, defense, "catches_missed")
        s3 == score_if(g.third_base, s2, offense)
        s4 == [s3 EXCEPT !.game.strikes = 0]
    IN SetBases(s4, TRUE, g.first_base, g.second_base)

\* Mutant of bunt_bonus: the runners move as for a steal "bonus", the batter
\* reaching no base.
bunt_bonus_batter_left_out(s, offense, defense) ==
    LET g  == s.game
        s1 == Bump(s, offense, "bunts_bonus")
        s2 == Bump(s1, defense, "catches_missed")
        s3 == score_if(g.second_base, s2, offense)
        s4 == score_if(g.third_base, s3, offense)
        s5 == [s4 EXCEPT !.game.strikes = 0]
    IN SetBases(s5, FALSE, FALSE, g.first_base)

\* outcome == "bonus"
bunt_bonus(s, offense, defense) ==
    LET g  == s.game
        s1 == Bump(s, offense, "bunts_bonus")
        s2 == Bump(s1, defense, "catches_missed")
        s3 == score_if(g.second_base, s2, offense)
        s4 == score_if(g.third_base, s3, offense)
        s5 == [s4 EXCEPT !.game.strikes = 0]
    IN SetBases(s5, FALSE, TRUE, g.first_base)

\* outcome == "fail"
bunt_fail(s, offense, defense) ==
    LET s1 == Bump(s, offense, "bunts_fail")
        s2 == Bump(s1, defense, "catches_made")
        s3 == increment_outs(s2)
    IN SetBases(s3, FALSE, FALSE, FALSE)

\* GameEngine._apply_bunt
apply_bunt(s, outcome, offense, defense) ==
    CASE outcome = "success" -> bunt_success(s, offense, defense)
      [] outcome = "bonus"   -> bunt_bonus(s, offense, defense)
      [] outcome = "fail"    -> bunt_fail(s, offense, defense)
      [] OTHER               -> Raise(s, "ValueError")

\* ----------------------------------------------------------- _apply_knock
\* Mutant of handle_knock_cycle: a unit resets the strike count, as the shot it
\* is modelled on does.
handle_knock_cycle_resets_strikes(s, base, shooter) ==
    LET g == s.game
        z == [s EXCEPT !.game.strikes = 0]
    IN CASE base = "first" ->
              SetBases(score_if(g.third_base, z, shooter),
                       TRUE, g.first_base, g.second_base)
         [] base = "second" ->
              SetBases(score_if(g.third_base, score_if(g.second_base, z, shooter), shooter),
                       FALSE, TRUE, g.first_base)
         [] base = "third" ->
              SetBases(score_if(g.third_base,
                           score_if(g.second_base,
                               score_if(g.first_base, z, shooter), shooter), shooter),
                       FALSE, FALSE, TRUE)
         [] OTHER -> Raise(s, "ValueError")

\* GameEngine._handle_knock_cycle; an exception of the flush ends the cycles.
handle_knock_cycle(s, base, shooter) ==
    LET g == s.game
    IN CASE base = "first" ->
              SetBases(score_if(g.third_base, s, shooter),
                       TRUE, g.first_base, g.second_base)
         [] base = "second" ->
              SetBases(score_if(g.third_base, score_if(g.second_base, s, shooter), shooter),
                       FALSE, TRUE, g.first_base)
         [] base = "third" ->
              SetBases(score_if(g.third_base,
                           score_if(g.second_base,
                               score_if(g.first_base, s, shooter), shooter), shooter),
                       FALSE, FALSE, TRUE)
         [] OTHER -> Raise(s, "ValueError")

\* `for _ in range(n): defense_stats.knocks_<base> += 1; self._handle_knock_cycle(...)`
RECURSIVE knock_cycles(_, _, _, _, _)
knock_cycles(s, base, n, shooter, catcher) ==
    IF n <= 0 \/ s.exc # "none"
    THEN s
    ELSE LET counter == CASE base = "first"  -> "knocks_first"
                          [] base = "second" -> "knocks_second"
                          [] OTHER           -> "knocks_third"
             s1 == Bump(s, catcher, counter)
         IN knock_cycles(handle_knock_cycle(s1, base, shooter), base, n - 1, shooter, catcher)

\* Mutant of apply_knock: the third-base units are applied first and the
\* first-base units last.
apply_knock_reversed(s, first, second, third, shooter, catcher) ==
    knock_cycles(
        knock_cycles(
            knock_cycles(s, "third", third, shooter, catcher),
            "second", second, shooter, catcher),
        "first", first, shooter, catcher)

\* GameEngine._apply_knock
apply_knock(s, first, second, third, shooter, catcher) ==
    knock_cycles(
        knock_cycles(
            knock_cycles(s, "first", first, shooter, catcher),
            "second", second, shooter, catcher),
        "third", third, shooter, catcher)

\* ------------------------------------------------------------- public API
\* `x = x or self.game.<role>`
OrRole(given, occupant) == IF given # NoPlayer THEN given ELSE occupant

\* Mutant of record_shot: the shot is logged before it is applied.
record_shot_logs_first(s, outcome, shooter_arg, catcher_arg) ==
    LET s1      == mark_in_progress(s)
        shooter == OrRole(shooter_arg, s1.game.offensive_shooter_id)
        catcher == OrRole(catcher_arg, s1.game.defensive_catcher_id)
    IN IF validate_players_raises(shooter, catcher)
       THEN Raise(s1, "ValueError")
       ELSE LET s2 == get_or_create_stats(s1, shooter)
                s3 == get_or_create_stats(s2, catcher)
                s4 == log_event(s3, "shot", outcome, shooter, catcher, <<>>)
            IN apply_shot(s4, outcome, shooter, catcher)

\* GameEngine.record_shot
record_shot(s, outcome, shooter_arg, catcher_arg) ==
    LET s1      == mark_in_progress(s)
        shooter == OrRole(shooter_arg, s1.game.offensive_shooter_id)
        catcher == OrRole(catcher_arg, s1.game.defensive_catcher_id)
    IN IF validate_players_raises(shooter, catcher)
       THEN Raise(s1, "ValueError")
       ELSE LET s2 == get_or_create_stats(s1, shooter)
                s3 == get_or_create_stats(s2, catcher)
                s4 == apply_shot(s3, outcome, shooter, catcher)
            IN IF s4.exc # "none" THEN s4
               ELSE log_event(s4, "shot", outcome, shooter, catcher, <<>>)

\* GameEngine.record_steal
record_steal(s, outcome, offense_arg, defense_arg) ==
    LET s1      == mark_in_progress(s)
        offense == OrRole(offense_arg, s1.game.offensive_drinker_id)
        defense == OrRole(defense_arg, s1.game.defensive_drinker_id)
    IN IF validate_players_raises(offense, defense)
       THEN Raise(s1, "ValueError")
       ELSE LET s2 == get_or_create_stats(s1, offense)
                s3 == get_or_create_stats(s2, defense)
                s4 == apply_steal(s3, outcome, offense, defense)
            IN IF s4.exc # "none" THEN s4
               ELSE log_event(s4, "steal", outcome, offense, defense, <<>>)

\* GameEngine.record_bunt
record_bunt(s, outcome, offense_arg, defense_arg) ==
    LET s1      == mark_in_progress(s)
        offense == OrRole(offense_arg, s1.game.offensive_drinker_id)
        defense == OrRole(defense_arg, s1.game.defensive_drinker_id)
    IN IF validate_players_raises(offense, defense)
       THEN Raise(s1, "ValueError")
       ELSE LET s2 == get_or_create_stats(s1, offense)
                s3 == get_or_create_stats(s2, defense)
                s4 == apply_bunt(s3, outcome, offense, defense)
            IN IF s4.exc # "none" THEN s4
               ELSE log_event(s4, "bunt", outcome, offense, defense, <<>>)

\* GameEngine.record_knock
record_knock(s, first, second, third) ==
    LET s1      == mark_in_progress(s)
        catcher == s1.game.defensive_catcher_id
        shooter == s1.game.offensive_shooter_id
    IN IF validate_players_raises(shooter, catcher)
       THEN Raise(s1, "ValueError")
       ELSE LET s2 == get_or_create_stats(s1, shooter)
                s3 == get_or_create_stats(s2, catcher)
                s4 == apply_knock(s3, first, second, third, shooter, catcher)
            IN IF s4.exc # "none" THEN s4
               ELSE log_event(s4, "knock", "update", shooter, catcher,
                              <<first, second, third>>)

\* ------------------------------------------------------------- transport
\* A value of the JSON payload: a number, a string, null, or a key left out.
Num(n) == [json |-> "number", n |-> n, s |-> ""]
Str(s) == [json |-> "string", n |-> 0, s |-> s]
JsonNull == [json |-> "null", n |-> 0, s |-> ""]
Absent == [json |-> "absent", n |-> 0, s |-> ""]

\* The strings Python's int() reads as a number, over the strings of the model.
Numerals == ("0" :> 0) @@ ("1" :> 1) @@ ("2" :> 2)

\* `int(payload.get(key, 0))`: TRUE when int() raises (TypeError for null,
\* ValueError for a string that is no numeral), and its value when it does not.
int_raises(v) ==
    \/ v.json = "null"
    \/ v.json = "string" /\ v.s \notin DOMAIN Numerals
int_value(v) ==
    CASE v.json = "number" -> v.n
      [] v.json = "string" -> Numerals[v.s]
      [] OTHER             -> 0

\* A request to one of the four event routes.  outcome "" is a payload without
\* one; offense_id/defense_id are the optional participant ids of the payload
\* (shooter_id/catcher_id for a shot); counts are the knock counts, the
\* payload's "first", "second" and "third".
Req(kind, outcome, offense_id, defense_id, counts) ==
    [ kind |-> kind, game_id |-> GameId, outcome |-> outcome,
      offense_id |-> offense_id, defense_id |-> defense_id, counts |-> counts ]

\* What a handler leaves: the database, the status code, and how often the out
\* sub-rule ran while it was handled.
Result(g, st, keys, ev, code, out_calls) ==
    [ game |-> g, stats |-> st, stat_keys |-> keys, events |-> ev,
      code |-> code, out_calls |-> out_calls ]

\* A return before or without any change to the session's objects.
Unchanged(db, code) == Result(db.game, db.stats, db.stat_keys, db.events, code, 0)

\* _load_game / _load_player: TRUE when they raise LookupError.
load_game_raises(game_id) == game_id # GameId
load_player_raises(player_id) == player_id # NoPlayer /\ player_id \notin Players

\* Leaving `with session_scope() as session:` after the engine call.  The
\* handler's except clauses turn ValueError into a 400 response and return
\* normally, so session_scope commits; any other exception reaches
\* session_scope, which rolls back and re-raises.
session_scope(db, s) ==
    LET f == IF s.exc = "IntegrityError" THEN s ELSE Flush(s)
    IN IF f.exc = "IntegrityError"
       THEN Unchanged(db, 500)
       ELSE Result(s.game, s.stats, f.stat_keys, s.events,
                   IF s.exc = "ValueError" THEN 400 ELSE 200, s.out_calls)

\* app.record_shot
app_record_shot(db, req) ==
    IF req.outcome = "" THEN Unchanged(db, 400)
    ELSE IF load_game_raises(req.game_id) THEN Unchanged(db, 404)
    ELSE IF load_player_raises(req.offense_id) \/ load_player_raises(req.defense_id)
    THEN Unchanged(db, 404)
    ELSE session_scope(db, record_shot(OpenSession(db),
                                       req.outcome, req.offense_id, req.defense_id))

\* app.record_steal
app_record_steal(db, req) ==
    IF req.outcome = "" THEN Unchanged(db, 400)
    ELSE IF load_game_raises(req.game_id) THEN Unchanged(db, 404)
    ELSE IF load_player_raises(req.offense_id) \/ load_player_raises(req.defense_id)
    THEN Unchanged(db, 404)
    ELSE session_scope(db, record_steal(OpenSession(db),
                                        req.outcome, req.offense_id, req.defense_id))

\* app.record_bunt
app_record_bunt(db, req) ==
    IF req.outcome = "" THEN Unchanged(db, 400)
    ELSE IF load_game_raises(req.game_id) THEN Unchanged(db, 404)
    ELSE IF load_player_raises(req.offense_id) \/ load_player_raises(req.defense_id)
    THEN Unchanged(db, 404)
    ELSE session_scope(db, record_bunt(OpenSession(db),
                                       req.outcome, req.offense_id, req.defense_id))

\* app.record_knock: the counts are converted before the with-block and outside
\* the try, so an exception of int() leaves the view function: the response is
\* the server's 500.
app_record_knock(db, req) ==
    IF \E i \in DOMAIN req.counts : int_raises(req.counts[i]) THEN Unchanged(db, 500)
    ELSE IF load_game_raises(req.game_id) THEN Unchanged(db, 404)
    ELSE session_scope(db, record_knock(OpenSession(db),
                                        int_value(req.counts[1]),
                                        int_value(req.counts[2]),
                                        int_value(req.counts[3])))

\* `.order_by(GameEvent.created_at.asc())`
EarlierCreated(a, b) == a.created_at < b.created_at

\* app.list_events: the log as GET /api/games/<id>/events returns it.
list_events(db) == SortSeq(db.events, EarlierCreated)

\* The route of a request.
Serve(db, req) ==
    CASE req.kind = "shot"  -> app_record_shot(db, req)
      [] req.kind = "steal" -> app_record_steal(db, req)
      [] req.kind = "bunt"  -> app_record_bunt(db, req)
      [] req.kind = "knock" -> app_record_knock(db, req)

\* The exchange as the client sees it, with the game row before and after.
Exchange(db, req, r) ==
    [ req |-> req, code |-> r.code, out_calls |-> r.out_calls,
      before |-> db.game, after |-> r.game ]

\* ----------------------------------------------------------------- inputs
\* Payloads without participant ids take every outcome code; the payloads that
\* name the participants are these: one player on both sides, and two players
\* who hold other roles.
ShotRequests ==
    {Req("shot", o, NoPlayer, NoPlayer, <<>>) : o \in ShotOutcomes \cup {UnknownOutcome}}
    \cup {Req("shot", "home", 3, 3, <<>>), Req("shot", "out", 4, 2, <<>>)}
StealRequests ==
    {Req("steal", o, NoPlayer, NoPlayer, <<>>) : o \in StealOutcomes \cup {UnknownOutcome}}
    \cup {Req("steal", "fail", 3, 3, <<>>)}
BuntRequests ==
    {Req("bunt", o, NoPlayer, NoPlayer, <<>>) : o \in BuntOutcomes \cup {UnknownOutcome}}
KnockCounts == {<<0, 0, 0>>, <<1, 0, 0>>, <<0, 1, 0>>, <<0, 0, 1>>, <<2, 1, 0>>, <<1, 1, 1>>}
KnockRequests ==
    {Req("knock", "", NoPlayer, NoPlayer, <<Num(c[1]), Num(c[2]), Num(c[3])>>) : c \in KnockCounts}

\* ------------------------------------------------------------------- Init
\* The threads of the server (Flask serves each request on a thread of its own;
\* scoped_session gives each thread its own session).
Workers == {"w1", "w2"}

\* A thread between requests.
IdleSession == [phase |-> "idle"]

DbOf(r) == [game |-> r.game, stats |-> r.stats, stat_keys |-> r.stat_keys, events |-> r.events]

Shot(o) == Req("shot", o, NoPlayer, NoPlayer, <<>>)

\* Games are played into the run's first state by a warm-up: a request sequence
\* served by the handlers above.
WarmUps ==
    { <<>>,
      <<Shot("out")>>,
      <<Shot("out"), Shot("out")>>,
      <<Shot("out"), Shot("out"), Shot("out")>>,
      <<Shot("strike"), Shot("strike")>>,
      <<Shot("out"), Shot("strike"), Shot("strike")>>,
      <<Shot("first")>>,
      <<Shot("second")>>,
      <<Shot("first"), Shot("first"), Shot("first")>>,
      <<Shot("out"), Shot("first"), Shot("first")>>,
      <<Shot("out"), Shot("second"), Shot("first")>>,
      <<Shot("out"), Shot("out"), Shot("first"), Shot("first")>>,
      <<Shot("out"), Shot("out"), Shot("second"), Shot("first")>>,
      <<Shot("out"), Shot("out"), Shot("first"), Shot("first"), Shot("first")>> }

\* create_game's role ids: all four given, or some left out.
Lineup == <<1, 2, 3, 4>>
OtherLineups == { <<NoPlayer, 2, 3, NoPlayer>>,
                  <<1, 2, 1, 2>> }

\* A game created with two players, each in an offensive and a defensive slot,
\* and played until one player is shooter and catcher and has a stats row.
SharedSlots ==
    [ roles |-> <<1, 2, 1, 2>>,
      warm  |-> << Req("shot", "out", 4, 2, <<>>),
                   Req("steal", "fail", NoPlayer, NoPlayer, <<>>),
                   Req("bunt", "fail", NoPlayer, NoPlayer, <<>>) >> ]

Setups == {[roles |-> Lineup, warm |-> w] : w \in WarmUps}
          \cup {[roles |-> l, warm |-> <<>>] : l \in OtherLineups}
          \cup {SharedSlots}

RECURSIVE Run(_, _)
Run(st, reqs) ==
    IF reqs = <<>>
    THEN st
    ELSE LET req == Head(reqs)
             r   == Serve(st, req)
         IN Run([ game |-> r.game, stats |-> r.stats, stat_keys |-> r.stat_keys,
                  events |-> r.events,
                  history |-> Append(st.history, Exchange(st, req, r)) ],
                Tail(reqs))

Created(roles) ==
    [ game |-> NewGame(roles), stats |-> <<>>, stat_keys |-> <<>>,
      events |-> <<>>, history |-> <<>> ]

Init ==
    \E setup \in Setups :
        LET st == Run(Created(setup.roles), setup.warm)
        IN /\ game = st.game
           /\ stats = st.stats
           /\ stat_keys = st.stat_keys
           /\ events = st.events
           /\ history = st.history
           /\ served = 0
           /\ sessions = [w \in Workers |-> IdleSession]
           /\ origin = DbOf(st)

\* ---------------------------------------------------------------- actions
Database == [game |-> game, stats |-> stats, stat_keys |-> stat_keys, events |-> events]

Handle(req) ==
    LET r == Serve(Database, req)
    IN /\ served < MaxOps
       /\ game' = r.game
       /\ stats' = r.stats
       /\ stat_keys' = r.stat_keys
       /\ events' = r.events
       /\ history' = Append(history, Exchange(Database, req, r))
       /\ served' = served + 1
       /\ UNCHANGED <<sessions, origin>>

\* One request at a time, from `with session_scope()` to its commit.
\* POST /api/games/<id>/events/shot
PostShot == \E req \in ShotRequests : Handle(req)
\* POST /api/games/<id>/events/steal
PostSteal == \E req \in StealRequests : Handle(req)
\* POST /api/games/<id>/events/bunt
PostBunt == \E req \in BuntRequests : Handle(req)
\* POST /api/games/<id>/events/knock
PostKnock == \E req \in KnockRequests : Handle(req)

Next == PostShot \/ PostSteal \/ PostBunt \/ PostKnock

Spec == Init /\ [][Next]_vars

\* ------------------------------------------------------- failing requests
\* The event routes under requests that cannot be served: a game or a player
\* that does not exist, a payload without outcome, an outcome no branch knows,
\* an empty role slot, knock counts that are no integers.
NoSuchGame == GameId + 1
NoSuchPlayer == Cardinality(Players) + 1

Elsewhere(req) == [req EXCEPT !.game_id = NoSuchGame]
Knock(counts) == Req("knock", "", NoPlayer, NoPlayer, counts)

ShotProbes ==
    { Shot("first"), Shot("out"), Shot(UnknownOutcome), Shot(""),
      Elsewhere(Shot("first")), Elsewhere(Shot("")),
      Req("shot", "first", NoSuchPlayer, NoPlayer, <<>>),
      Req("shot", "first", NoPlayer, NoSuchPlayer, <<>>),
      Req("shot", "first", 1, 3, <<>>) }
StealProbes ==
    { Req("steal", "success", NoPlayer, NoPlayer, <<>>),
      Req("steal", UnknownOutcome, NoPlayer, NoPlayer, <<>>),
      Req("steal", "", NoPlayer, NoPlayer, <<>>),
      Elsewhere(Req("steal", "success", NoPlayer, NoPlayer, <<>>)),
      Req("steal", "fail", NoSuchPlayer, NoPlayer, <<>>) }
BuntProbes ==
    { Req("bunt", "success", NoPlayer, NoPlayer, <<>>),
      Req("bunt", UnknownOutcome, NoPlayer, NoPlayer, <<>>),
      Req("bunt", "", NoPlayer, NoPlayer, <<>>),
      Elsewhere(Req("bunt", "fail", NoPlayer, NoPlayer, <<>>)),
      Req("bunt", "fail", NoPlayer, NoSuchPlayer, <<>>) }
KnockProbes ==
    { Knock(<<Num(1), Num(0), Num(0)>>),
      Knock(<<Absent, Absent, Absent>>),
      Knock(<<Str("2"), Absent, Absent>>),
      Knock(<<Str("many"), Absent, Absent>>),
      Knock(<<Absent, JsonNull, Absent>>),
      Elsewhere(Knock(<<Num(1), Num(0), Num(0)>>)),
      Elsewhere(Knock(<<Absent, Absent, Str("many")>>)) }

TransportSetups ==
    { [roles |-> Lineup, warm |-> <<>>],
      [roles |-> Lineup, warm |-> <<Shot("out")>>],
      [roles |-> <<NoPlayer, 2, 3, NoPlayer>>, warm |-> <<>>] }

TransportInit ==
    \E setup \in TransportSetups :
        LET st == Run(Created(setup.roles), setup.warm)
        IN /\ game = st.game
           /\ stats = st.stats
           /\ stat_keys = st.stat_keys
           /\ events = st.events
           /\ history = st.history
           /\ served = 0
           /\ sessions = [w \in Workers |-> IdleSession]
           /\ origin = DbOf(st)

ProbeShot == \E req \in ShotProbes : Handle(req)
ProbeSteal == \E req \in StealProbes : Handle(req)
ProbeBunt == \E req \in BuntProbes : Handle(req)
ProbeKnock == \E req \in KnockProbes : Handle(req)

TransportNext == ProbeShot \/ ProbeSteal \/ ProbeBunt \/ ProbeKnock

TransportSpec == TransportInit /\ [][TransportNext]_vars

\* ------------------------------------------------------ concurrent requests
\* Requests served by two threads at once.  A handler reads the game row and
\* the stats rows into its session (session.get, the query of
\* _get_or_create_stats), the engine works on these objects, and the flush and
\* commit write them back; nothing in app.py, database.py or the engine locks
\* the row or checks a version, so another thread's commit can fall between
\* the reads and the writes.

\* The UPDATE of a flush: the columns whose value differs from the loaded one
\* are written, the others keep what the table holds.
WriteBack(row, loaded, new) ==
    [f \in DOMAIN row |-> IF new[f] # loaded[f] THEN new[f] ELSE row[f]]

\* The stats rows after a session's flush: UPDATE for the rows it loaded,
\* INSERT for the rows it added.
WriteBackStats(rows, loaded, new) ==
    [p \in DOMAIN rows \cup DOMAIN new |->
        IF p \notin DOMAIN new THEN rows[p]
        ELSE IF p \in DOMAIN loaded /\ p \in DOMAIN rows
        THEN WriteBack(rows[p], loaded[p], new[p])
        ELSE new[p]]

\* What a sequence gained over the sequence it grew from.
Added(before, after) == SubSeq(after, Len(before) + 1, Len(after))

ConcurrentRequests ==
    { Shot("out"), Shot("strike"), Shot("first"), Shot("home"),
      Req("steal", "fail", NoPlayer, NoPlayer, <<>>),
      Req("bunt", "success", NoPlayer, NoPlayer, <<>>),
      Req("shot", "out", 4, 2, <<>>) }

ConcurrentWarmUps ==
    { <<>>, <<Shot("out")>>, <<Shot("strike"), Shot("strike")>>,
      <<Shot("first"), Shot("first"), Shot("first")>> }

ConcurrentInit ==
    \E warm \in ConcurrentWarmUps :
        LET st == Run(Created(Lineup), warm)
        IN /\ game = st.game
           /\ stats = st.stats
           /\ stat_keys = st.stat_keys
           /\ events = st.events
           /\ history = <<>>
           /\ served = 0
           /\ sessions = [w \in Workers |-> IdleSession]
           /\ origin = DbOf(st)

\* A thread enters a handler: session_scope() opens its session and the
\* handler and the engine read the rows the request needs.
Begin(w, req) ==
    /\ served < MaxOps
    /\ sessions[w].phase = "idle"
    /\ sessions' = [sessions EXCEPT ![w] = [phase |-> "open", req |-> req, loaded |-> Database]]
    /\ served' = served + 1
    /\ UNCHANGED <<game, stats, stat_keys, events, history, origin>>

\* The rest of the handler: the engine's changes to the loaded objects are
\* flushed and committed.  A row inserted meanwhile for one of the session's
\* new stats rows violates uix_player_game: rollback, 500.
Commit(w) ==
    /\ sessions[w].phase = "open"
    /\ \E r \in {Serve(sessions[w].loaded, sessions[w].req)} :
       \E newkeys \in {Added(sessions[w].loaded.stat_keys, r.stat_keys)} :
       \E done \in { IF r.code = 500 \/ Range(newkeys) \cap Range(stat_keys) # {}
                     THEN Unchanged(Database, 500)
                     ELSE Result(WriteBack(game, sessions[w].loaded.game, r.game),
                                 WriteBackStats(stats, sessions[w].loaded.stats, r.stats),
                                 stat_keys \o newkeys,
                                 events \o Added(sessions[w].loaded.events, r.events),
                                 r.code, r.out_calls) } :
          /\ game' = done.game
          /\ stats' = done.stats
          /\ stat_keys' = done.stat_keys
          /\ events' = done.events
          /\ history' = Append(history, Exchange(sessions[w].loaded, sessions[w].req, done))
          /\ sessions' = [sessions EXCEPT ![w] = IdleSession]
          /\ UNCHANGED <<served, origin>>

\* The flush finds the database locked by the other thread's transaction for
\* longer than the driver waits: OperationalError, rollback, 500.
Locked(w) ==
    LET ses == sessions[w]
    IN /\ ses.phase = "open"
       /\ \E v \in Workers \ {w} : sessions[v].phase = "open"
       /\ history' = Append(history, Exchange(ses.loaded, ses.req, Unchanged(Database, 500)))
       /\ sessions' = [sessions EXCEPT ![w] = IdleSession]
       /\ UNCHANGED <<game, stats, stat_keys, events, served, origin>>

BeginRequest == \E w \in Workers, req \in ConcurrentRequests : Begin(w, req)
CommitSession == \E w \in Workers : Commit(w)
LockedOut == \E w \in Workers : Locked(w)

ConcurrentNext == BeginRequest \/ CommitSession \/ LockedOut

ConcurrentSpec == ConcurrentInit /\ [][ConcurrentNext]_vars

\* ------------------------------------------------------------- properties
\* The exchange of the step being taken.
Handled == history'[Len(history')]

Bit(flag) == IF flag THEN 1 ELSE 0

\* Runs an exchange added to the batting side (the side of the half it began in)
\* and to the other side.
BattingRuns(e) ==
    IF e.before.half = "top"
    THEN e.after.away_score - e.before.away_score
    ELSE e.after.home_score - e.before.home_score
FieldingRuns(e) ==
    IF e.before.half = "top"
    THEN e.after.home_score - e.before.home_score
    ELSE e.after.away_score - e.before.away_score

Bases(g) == <<g.first_base, g.second_base, g.third_base>>
Occupied(g) == Bit(g.first_base) + Bit(g.second_base) + Bit(g.third_base)

IsShot(e, outcome) == e.req.kind = "shot" /\ e.req.outcome = outcome /\ e.code = 200

\* C1: between operations, outs is never greater than 2 and never negative.
OutsAtMostTwo == game.outs >= 0 /\ game.outs <= 2

\* C1 witness: two outs in a row have been recorded; the second reset outs to 0.
OutsAtMostTwoWitness ==
    /\ served >= 1
    /\ Len(history) >= 2
    /\ history[Len(history)].out_calls = 1
    /\ history[Len(history) - 1].out_calls = 1
    /\ history[Len(history)].before.outs = 1
    /\ game.outs = 0

\* C2: a grandslam adds exactly 4 to the batting side's score, leaves the other
\* side's score unchanged and leaves the three bases empty, whatever the bases were.
GrandslamAddsFour ==
    \A i \in DOMAIN history :
        IsShot(history[i], "grandslam") =>
            /\ BattingRuns(history[i]) = 4
            /\ FieldingRuns(history[i]) = 0
            /\ Bases(history[i].after) = <<FALSE, FALSE, FALSE>>

\* C2 witness: a grandslam was hit in the bottom half with the bases loaded.
GrandslamAddsFourWitness ==
    /\ served >= 1
    /\ IsShot(history[Len(history)], "grandslam")
    /\ history[Len(history)].before.half = "bottom"
    /\ Bases(history[Len(history)].before) = <<TRUE, TRUE, TRUE>>
    /\ game.home_score = history[Len(history)].before.home_score + 4

\* C3: from strikes = 0, three strikes in a row run the out sub-rule exactly once,
\* on the third; the first two raise strikes to 1 and 2; strikes ends at 0.
ThreeStrikesOneOut ==
    \A i \in DOMAIN history :
        ( /\ i + 2 <= Len(history)
          /\ \A k \in i..(i + 2) : IsShot(history[k], "strike")
          /\ history[i].before.strikes = 0 )
        => /\ history[i].out_calls = 0 /\ history[i].after.strikes = 1
           /\ history[i + 1].out_calls = 0 /\ history[i + 1].after.strikes = 2
           /\ history[i + 2].out_calls = 1 /\ history[i + 2].after.strikes = 0

\* C3 witness: the last three requests were strikes, the first taken at strikes = 0.
ThreeStrikesOneOutWitness ==
    /\ served >= 1
    /\ Len(history) >= 3
    /\ \A k \in (Len(history) - 2)..Len(history) : IsShot(history[k], "strike")
    /\ history[Len(history) - 2].before.strikes = 0
    /\ game.strikes = 0

\* Half flips from request i to request j of the history, both included.
RECURSIVE Flips(_, _)
Flips(i, j) ==
    IF i > j THEN 0
    ELSE Bit(history[i].before.half # history[i].after.half) + Flips(i + 1, j)

\* C4: two successive runs of the out sub-rule flip half exactly once in total;
\* inning rises by 1 if that flip is bottom to top and not at all if top to bottom.
TwoOutsFlipOnce ==
    \A i, j \in DOMAIN history :
        ( /\ i < j
          /\ history[i].out_calls = 1
          /\ history[j].out_calls = 1
          /\ \A k \in (i + 1)..(j - 1) : history[k].out_calls = 0 )
        => /\ Flips(i, j) = 1
           /\ history[j].after.inning - history[i].before.inning
                = Bit(history[j].after.half = "top")

\* C4 witness: two outs in a row in the bottom half brought the game to the top
\* of the next inning.
TwoOutsFlipOnceWitness ==
    /\ served >= 1
    /\ Len(history) >= 2
    /\ history[Len(history) - 1].out_calls = 1
    /\ history[Len(history)].out_calls = 1
    /\ history[Len(history) - 1].before.half = "bottom"
    /\ game.half = "top"
    /\ game.inning = history[Len(history) - 1].before.inning + 1

\* The player a payload id or, without one, a role slot names.
Participant(given, occupant) == IF given # NoPlayer THEN given ELSE occupant

CatchesMade(st, player) ==
    IF player \in DOMAIN st THEN st[player].catches_made ELSE 0

IsFail(e) == e.req.kind \in {"steal", "bunt"} /\ e.req.outcome = "fail" /\ e.code = 200

\* C5: a failed steal and a failed bunt each add exactly 1 to the defense
\* participant's catches_made and leave the three bases empty.
FailCreditsDefenseClearsBases ==
    [][ IsFail(Handled) =>
          LET defense == Participant(Handled.req.defense_id, game.defensive_drinker_id)
          IN /\ defense \in DOMAIN stats'
             /\ stats'[defense].catches_made = CatchesMade(stats, defense) + 1
             /\ Bases(game') = <<FALSE, FALSE, FALSE>> ]_vars

\* C5 witness: a failed steal was the second out of a half-inning that had a
\* runner on base, and the bases are empty.
FailCreditsDefenseClearsBasesWitness ==
    /\ served >= 1
    /\ Len(history) >= 1
    /\ IsFail(history[Len(history)])
    /\ history[Len(history)].req.kind = "steal"
    /\ history[Len(history)].before.outs = 1
    /\ Occupied(history[Len(history)].before) >= 1
    /\ Bases(game) = <<FALSE, FALSE, FALSE>>
    /\ \E p \in DOMAIN stats : stats[p].catches_made >= 1

\* C6: from bases (f,s,t) a shot gives: first -> (true,f,s), t scores;
\* second -> (false,true,f), s and t score; third -> (false,false,true), f, s
\* and t score; home -> empty bases, 1 + occupied bases score.  So from empty
\* bases first, second, home score 0, 0 and 3 runs.
ShotAdvancesRunners ==
    /\ \A i \in DOMAIN history :
         LET e == history[i]
             b == e.before
         IN /\ IsShot(e, "first") =>
                 /\ Bases(e.after) = <<TRUE, b.first_base, b.second_base>>
                 /\ BattingRuns(e) = Bit(b.third_base)
            /\ IsShot(e, "second") =>
                 /\ Bases(e.after) = <<FALSE, TRUE, b.first_base>>
                 /\ BattingRuns(e) = Bit(b.second_base) + Bit(b.third_base)
            /\ IsShot(e, "third") =>
                 /\ Bases(e.after) = <<FALSE, FALSE, TRUE>>
                 /\ BattingRuns(e) = Occupied(b)
            /\ IsShot(e, "home") =>
                 /\ Bases(e.after) = <<FALSE, FALSE, FALSE>>
                 /\ BattingRuns(e) = 1 + Occupied(b)
            /\ e.req.kind = "shot" => FieldingRuns(e) = 0
    /\ \A i \in DOMAIN history :
         ( /\ i + 2 <= Len(history)
           /\ IsShot(history[i], "first")
           /\ IsShot(history[i + 1], "second")
           /\ IsShot(history[i + 2], "home")
           /\ Bases(history[i].before) = <<FALSE, FALSE, FALSE>> )
         => /\ Bases(history[i].after) = <<TRUE, FALSE, FALSE>>
            /\ BattingRuns(history[i]) = 0
            /\ Bases(history[i + 1].after) = <<FALSE, TRUE, TRUE>>
            /\ BattingRuns(history[i + 1]) = 0
            /\ Bases(history[i + 2].after) = <<FALSE, FALSE, FALSE>>
            /\ BattingRuns(history[i + 2]) = 3

\* C6 witness: first, second, home were hit in a row from empty bases.
ShotAdvancesRunnersWitness ==
    /\ served >= 1
    /\ Len(history) = 3
    /\ IsShot(history[1], "first")
    /\ IsShot(history[2], "second")
    /\ IsShot(history[3], "home")
    /\ game.away_score = 3

\* C7: a strike taken at outs = 1 and strikes = 2 performs the full rotation in
\* the same operation: outs = 0, strikes = 0, half flipped, defensive_drinker and
\* offensive_drinker exchanged, offensive_shooter and defensive_catcher exchanged.
ThirdStrikeSecondOutRotates ==
    \A i \in DOMAIN history :
        LET e == history[i]
            b == e.before
            a == e.after
        IN ( IsShot(e, "strike") /\ b.outs = 1 /\ b.strikes = 2 )
           => /\ a.outs = 0
              /\ a.strikes = 0
              /\ a.half # b.half
              /\ a.offensive_drinker_id = b.defensive_drinker_id
              /\ a.defensive_drinker_id = b.offensive_drinker_id
              /\ a.offensive_shooter_id = b.defensive_catcher_id
              /\ a.defensive_catcher_id = b.offensive_shooter_id

\* C7 witness: the last request was a strike taken at outs = 1, strikes = 2, and
\* the sides have changed.
ThirdStrikeSecondOutRotatesWitness ==
    /\ served >= 1
    /\ Len(history) >= 1
    /\ IsShot(history[Len(history)], "strike")
    /\ history[Len(history)].before.outs = 1
    /\ history[Len(history)].before.strikes = 2
    /\ game.half = "bottom"
    /\ game.offensive_shooter_id = 3

\* A request whose offense or defense participant is absent: no id in the
\* payload and the role slot empty.
MissingParticipant(req, g) ==
    CASE req.kind \in {"shot", "knock"} ->
           \/ Participant(req.offense_id, g.offensive_shooter_id) = NoPlayer
           \/ Participant(req.defense_id, g.defensive_catcher_id) = NoPlayer
      [] OTHER ->
           \/ Participant(req.offense_id, g.offensive_drinker_id) = NoPlayer
           \/ Participant(req.defense_id, g.defensive_drinker_id) = NoPlayer

\* C8: a request with a missing participant fails with the missing-participant
\* error and changes no field of the game (status included), no stats row and
\* no event-log record.
MissingParticipantChangesNothing ==
    [][ MissingParticipant(Handled.req, game) =>
          /\ Handled.code = 400
          /\ game' = game
          /\ stats' = stats
          /\ events' = events ]_vars

\* C9: a shot, steal or bunt with an unrecognised outcome code fails and commits
\* nothing: game, stats rows and event log stay as they were.  Stated for the
\* requests whose participants are present, the ones that reach the engine's
\* outcome dispatch, and with any error status counted as the failure.
UnknownOutcomeCommitsNothing ==
    [][ ( /\ Handled.req.kind \in {"shot", "steal", "bunt"}
          /\ Handled.req.outcome = UnknownOutcome
          /\ ~MissingParticipant(Handled.req, game) )
        => /\ Handled.code # 200
           /\ game' = game
           /\ stats' = stats
           /\ events' = events ]_vars

\* C10: home_score and away_score are never negative and no operation lowers
\* either of them.
ScoresNeverDecrease ==
    /\ game.home_score >= 0
    /\ game.away_score >= 0
    /\ \A i \in DOMAIN history :
         /\ history[i].after.home_score >= history[i].before.home_score
         /\ history[i].after.away_score >= history[i].before.away_score
         /\ i > 1 => history[i].before = history[i - 1].after
    /\ history # <<>> => game = history[Len(history)].after

\* C10 witness: the last request scored for the home side.
ScoresNeverDecreaseWitness ==
    /\ served >= 1
    /\ game.home_score > 0
    /\ history[Len(history)].after.home_score > history[Len(history)].before.home_score

PointsFor(st, player) ==
    IF player \in DOMAIN st THEN st[player].points_for ELSE 0

\* The offense participant of a request: the payload's id or the role slot.
OffenseOf(req, g) ==
    CASE req.kind \in {"shot", "knock"} -> Participant(req.offense_id, g.offensive_shooter_id)
      [] OTHER -> Participant(req.offense_id, g.offensive_drinker_id)

\* C11: the runs an operation scores go to away_score when half is top at its
\* start and to home_score when it is bottom; the other side's score is
\* unchanged; the offense participant's points_for rises by the same number of
\* runs, and nobody else's points_for changes.
RunsGoToBattingSide ==
    [][ LET offense == OffenseOf(Handled.req, game)
        IN /\ BattingRuns(Handled) >= 0
           /\ FieldingRuns(Handled) = 0
           /\ PointsFor(stats', offense) - PointsFor(stats, offense) = BattingRuns(Handled)
           /\ \A p \in Players \ {offense} : PointsFor(stats', p) = PointsFor(stats, p) ]_vars

\* C11 witness: a bonus steal in the bottom half with the bases loaded brought
\* two runs home, both credited to the stealing player.
RunsGoToBattingSideWitness ==
    /\ served >= 1
    /\ history[Len(history)].req.kind = "steal"
    /\ history[Len(history)].req.outcome = "bonus"
    /\ history[Len(history)].before.half = "bottom"
    /\ game.home_score = history[Len(history)].before.home_score + 2
    /\ game.away_score = history[Len(history)].before.away_score
    /\ PointsFor(stats, game.offensive_drinker_id) >= 2

\* C12: status moves from scheduled to in_progress on the first successfully
\* recorded event and is not changed by any other operation: a request that
\* records no event leaves it as it was, and a status other than scheduled is
\* never changed.
StatusMovesOnFirstRecordedEvent ==
    [][ /\ (Handled.code = 200 /\ game.status = "scheduled")
             => game'.status = "in_progress"
        /\ (Handled.code # 200 \/ game.status # "scheduled")
             => game'.status = game.status ]_vars

\* The PlayerGameStats rows of a player in the game.
StatsRows(player) == {i \in DOMAIN stat_keys : stat_keys[i] = player}

\* C13: at most one PlayerGameStats row exists for each (player, game) pair,
\* also after an event whose offense and defense participant are one player who
\* had no row yet; the rows are those of the players with counters.
OneStatsRowPerPlayer ==
    /\ \A p \in Players : Cardinality(StatsRows(p)) <= 1
    /\ Range(stat_keys) = DOMAIN stats

\* C13 witness: the last request named one player on both sides, that player
\* had no row, other players have theirs; the request failed at the flush and
\* the player still has no row.
OneStatsRowPerPlayerWitness ==
    /\ served >= 1
    /\ history[Len(history)].req.offense_id # NoPlayer
    /\ history[Len(history)].req.offense_id = history[Len(history)].req.defense_id
    /\ history[Len(history)].code = 500
    /\ StatsRows(history[Len(history)].req.offense_id) = {}
    /\ stat_keys # <<>>

\* The requests of the history that were not rolled back.
Applied == {i \in DOMAIN history : history[i].code # 500}

\* The databases that serving the requests I of the history one after the
\* other, in any order, leads to from db.
RECURSIVE SerialOutcomes(_, _)
SerialOutcomes(db, I) ==
    IF I = {}
    THEN {db}
    ELSE UNION { SerialOutcomes(DbOf(Serve(db, history[i].req)), I \ {i}) : i \in I }

Quiescent == \A w \in Workers : sessions[w].phase = "idle"

\* C14: requests for one game handled concurrently are serialized: once they
\* are all committed, the game row (outs, strikes, bases, scores, roles) and
\* the stats rows are what serving them one after the other, in some order,
\* gives from the database they started from.
ConcurrentRequestsSerialized ==
    (Quiescent /\ Applied # {}) =>
        \E db \in SerialOutcomes(origin, Applied) :
            /\ game = db.game
            /\ stats = db.stats

\* C15: the event log is append-only: whatever the operation, the log listed
\* after it begins with the log listed before it, record for record (kind,
\* outcome, participants and the rest unchanged), and the new records follow.
EventLogAppendOnly ==
    [][ LET old == list_events(Database)
            new == list_events([events |-> events'])
        IN /\ Len(new) >= Len(old)
           /\ SubSeq(new, 1, Len(old)) = old ]_vars

\* C15 witness: an out added its rotation record and its shot record to a log
\* that already held records.
EventLogAppendOnlyWitness ==
    /\ served >= 1
    /\ Len(events) >= 4
    /\ history[Len(history)].before.outs = 1
    /\ events[Len(events) - 1].event_type = "rotation"
    /\ events[Len(events) - 1].outcome = "full_rotation"
    /\ events[Len(events)].event_type = "shot"
    /\ list_events(Database) = events

\* A request that names a game or a player that does not exist.
NamesUnknown(req) ==
    \/ req.game_id # GameId
    \/ req.kind # "knock" /\ req.offense_id \notin Players \cup {NoPlayer}
    \/ req.kind # "knock" /\ req.defense_id \notin Players \cup {NoPlayer}

\* A knock count that is no integer: not a number, not left out, and not a
\* string that spells a number.
MalformedCount(v) ==
    /\ v.json \notin {"number", "absent"}
    /\ ~(v.json = "string" /\ v.s \in {"0", "1", "2"})

\* A request that fails validation or fails in the engine: no outcome, an
\* unknown outcome, a missing participant, a malformed knock count.
Invalid(req, g) ==
    \/ req.kind # "knock" /\ req.outcome = ""
    \/ req.kind # "knock" /\ req.outcome = UnknownOutcome
    \/ req.kind = "knock" /\ \E i \in DOMAIN req.counts : MalformedCount(req.counts[i])
    \/ ~NamesUnknown(req) /\ MissingParticipant(req, g)

\* C16: on each of the four event routes a request that names a game or player
\* that does not exist is answered 404 and a validation or engine failure is
\* answered 400, and by nothing else; a request that is both may get either.
FailuresAre404Or400 ==
    [][ LET req == Handled.req
        IN /\ (NamesUnknown(req) /\ ~Invalid(req, game)) => Handled.code = 404
           /\ (Invalid(req, game) /\ ~NamesUnknown(req)) => Handled.code = 400
           /\ (Invalid(req, game) /\ NamesUnknown(req)) => Handled.code \in {400, 404} ]_vars

\* The rotation records among the records a step added to the log.
NewRotations ==
    SelectSeq(Added(events, events'), LAMBDA e : e.event_type = "rotation")

\* C17: an operation that runs the out sub-rule at outs = 0 sets outs to 1,
\* exchanges offensive_shooter and offensive_drinker, resets strikes to 0, adds
\* one rotation/swap_offense record to the log and leaves half, inning, both
\* scores and the two defensive role slots as they were.
FirstOutSwapsOffense ==
    [][ (Handled.out_calls = 1 /\ game.outs = 0) =>
          /\ game'.outs = 1
          /\ game'.offensive_shooter_id = game.offensive_drinker_id
          /\ game'.offensive_drinker_id = game.offensive_shooter_id
          /\ game'.strikes = 0
          /\ Len(NewRotations) = 1
          /\ NewRotations[1].outcome = "swap_offense"
          /\ game'.half = game.half
          /\ game'.inning = game.inning
          /\ game'.home_score = game.home_score
          /\ game'.away_score = game.away_score
          /\ game'.defensive_catcher_id = game.defensive_catcher_id
          /\ game'.defensive_drinker_id = game.defensive_drinker_id ]_vars

\* C17 witness: a failed steal was the first out of a half-inning in which two
\* strikes stood; outs is 1, strikes is 0 and the log ends with the swap and
\* the steal.
FirstOutSwapsOffenseWitness ==
    /\ served >= 1
    /\ IsFail(history[Len(history)])
    /\ history[Len(history)].req.kind = "steal"
    /\ history[Len(history)].before.outs = 0
    /\ history[Len(history)].before.strikes = 2
    /\ game.outs = 1
    /\ game.strikes = 0
    /\ events[Len(events) - 1].outcome = "swap_offense"

\* C18: an operation that runs the out sub-rule at outs = 1 exchanges
\* defensive_drinker with offensive_drinker and offensive_shooter with
\* defensive_catcher, sets outs and strikes to 0, flips half, adds 1 to inning
\* exactly when the new half is top, and adds one rotation/full_rotation record
\* to the log.
SecondOutFullRotation ==
    [][ (Handled.out_calls = 1 /\ game.outs = 1) =>
          /\ game'.offensive_drinker_id = game.defensive_drinker_id
          /\ game'.defensive_drinker_id = game.offensive_drinker_id
          /\ game'.offensive_shooter_id = game.defensive_catcher_id
          /\ game'.defensive_catcher_id = game.offensive_shooter_id
          /\ game'.outs = 0
          /\ game'.strikes = 0
          /\ game'.half = (IF game.half = "top" THEN "bottom" ELSE "top")
          /\ game'.inning = game.inning + Bit(game'.half = "top")
          /\ Len(NewRotations) = 1
          /\ NewRotations[1].outcome = "full_rotation" ]_vars

\* C18 witness: a failed bunt was the second out of a bottom half; the game is
\* in the top of the next inning and the log ends with the full rotation and
\* the bunt.
SecondOutFullRotationWitness ==
    /\ served >= 1
    /\ IsFail(history[Len(history)])
    /\ history[Len(history)].req.kind = "bunt"
    /\ history[Len(history)].before.outs = 1
    /\ history[Len(history)].before.half = "bottom"
    /\ game.half = "top"
    /\ game.inning = history[Len(history)].before.inning + 1
    /\ events[Len(events) - 1].outcome = "full_rotation"

\* C19: a shot with outcome strike or out leaves the three base flags as they
\* were, also when it is the first out or the out that changes sides.
StrikeAndOutKeepBases ==
    \A i \in DOMAIN history :
        (IsShot(history[i], "strike") \/ IsShot(history[i], "out"))
            => Bases(history[i].after) = Bases(history[i].before)

\* C19 witness: a shot out was the second out of a half-inning with runners on
\* base; the sides have changed and the runners are still there.
StrikeAndOutKeepBasesWitness ==
    /\ served >= 1
    /\ IsShot(history[Len(history)], "out")
    /\ history[Len(history)].before.outs = 1
    /\ game.half # history[Len(history)].before.half
    /\ Occupied(game) >= 2
    /\ Bases(game) = Bases(history[Len(history)].before)

\* An operation that puts a ball in play.
PutsBallInPlay(e) ==
    /\ e.code = 200
    /\ \/ e.req.kind = "shot" /\ e.req.outcome \in {"first", "second", "third", "home", "grandslam"}
       \/ e.req.kind = "bunt" /\ e.req.outcome \in {"success", "bonus"}

\* An operation that records an out.
RecordsOut(e) ==
    \/ IsShot(e, "out")
    \/ IsShot(e, "strike") /\ e.before.strikes = 2
    \/ IsFail(e)

\* C20: strikes is 0 after every operation that puts a ball in play (shot
\* first, second, third, home, grandslam; bunt success, bonus) and after every
\* operation that records an out (shot out, a strike at strikes = 2, steal
\* fail, bunt fail).
StrikesResetOnPlayOrOut ==
    \A i \in DOMAIN history :
        (PutsBallInPlay(history[i]) \/ RecordsOut(history[i]))
            => /\ history[i].after.strikes = 0
               /\ RecordsOut(history[i]) <=> history[i].out_calls = 1

\* C20 witness: a bunt succeeded with two strikes standing and the count is
\* back at 0.
StrikesResetOnPlayOrOutWitness ==
    /\ served >= 1
    /\ history[Len(history)].req.kind = "bunt"
    /\ history[Len(history)].req.outcome = "success"
    /\ history[Len(history)].code = 200
    /\ history[Len(history)].before.strikes = 2
    /\ game.strikes = 0

\* C21: in a game that starts with strikes = 0, strikes between operations is
\* always 0, 1 or 2; every exchange starts from one of these values and ends
\* in one.
StrikesAtMostTwo ==
    /\ game.strikes \in {0, 1, 2}
    /\ \A i \in DOMAIN history :
         /\ history[i].before.strikes \in {0, 1, 2}
         /\ history[i].after.strikes \in {0, 1, 2}

\* C21 witness: a strike was taken with one strike standing; the count is 2.
StrikesAtMostTwoWitness ==
    /\ served >= 1
    /\ IsShot(history[Len(history)], "strike")
    /\ history[Len(history)].before.strikes = 1
    /\ game.strikes = 2

\* The base and scoring rule of a shot, as a step on <<bases, runs>>: what a
\* shot "first", "second" or "third" makes of the bases and how many runs it
\* adds.
ShotRule(base, st) ==
    LET f == st.bases[1]
        s == st.bases[2]
        t == st.bases[3]
    IN CASE base = "first"  -> [bases |-> <<TRUE, f, s>>, runs |-> st.runs + Bit(t)]
         [] base = "second" -> [bases |-> <<FALSE, TRUE, f>>, runs |-> st.runs + Bit(s) + Bit(t)]
         [] base = "third"  -> [bases |-> <<FALSE, FALSE, TRUE>>,
                                runs |-> st.runs + Bit(f) + Bit(s) + Bit(t)]

\* n applications of a rule, each from the bases the one before left.
RECURSIVE Units(_, _, _)
Units(base, n, st) ==
    IF n = 0 THEN st ELSE Units(base, n - 1, ShotRule(base, st))

KnocksOf(st, player, counter) ==
    IF player \in DOMAIN st THEN st[player][counter] ELSE 0

\* C22: a knock with counts (f, s, t) changes bases and scores as f units of
\* the shot-first rule, then s units of the shot-second rule, then t units of
\* the shot-third rule, each unit from the bases the previous one left; the
\* catcher's knocks_first, knocks_second, knocks_third rise by f, s, t.
KnockIsUnitsInOrder ==
    [][ (Handled.req.kind = "knock" /\ Handled.code = 200) =>
          LET f == int_value(Handled.req.counts[1])
              s == int_value(Handled.req.counts[2])
              t == int_value(Handled.req.counts[3])
              catcher == game.defensive_catcher_id
              end == Units("third", t,
                        Units("second", s,
                           Units("first", f, [bases |-> Bases(game), runs |-> 0])))
          IN /\ Bases(game') = end.bases
             /\ BattingRuns(Handled) = end.runs
             /\ FieldingRuns(Handled) = 0
             /\ KnocksOf(stats', catcher, "knocks_first") = KnocksOf(stats, catcher, "knocks_first") + f
             /\ KnocksOf(stats', catcher, "knocks_second") = KnocksOf(stats, catcher, "knocks_second") + s
             /\ KnocksOf(stats', catcher, "knocks_third") = KnocksOf(stats, catcher, "knocks_third") + t ]_vars

\* C22 witness: a knock of two firsts and one second was recorded with runners
\* on first and third: both runners and the first knock scored, a runner
\* stands on second and one on third.
KnockIsUnitsInOrderWitness ==
    /\ served >= 1
    /\ history[Len(history)].req.kind = "knock"
    /\ history[Len(history)].code = 200
    /\ history[Len(history)].req.counts = <<Num(2), Num(1), Num(0)>>
    /\ Bases(history[Len(history)].before) = <<TRUE, FALSE, TRUE>>
    /\ BattingRuns(history[Len(history)]) = 3
    /\ Bases(game) = <<FALSE, TRUE, TRUE>>

Counters == DOMAIN NewStats
ShotCounters == {"shots_taken", "shots_first", "shots_second", "shots_third",
                 "shots_home", "shots_grandslam", "shots_strike", "shots_out"}
KnockCounters == {"knocks_first", "knocks_second", "knocks_third"}

\* A counter of a player's row, 0 while the row does not exist.
Counter(st, player, c) == IF player \in DOMAIN st THEN st[player][c] ELSE 0

\* What a knock leaves alone in the game row.
KnockKeepsGame ==
    /\ game'.strikes = game.strikes
    /\ game'.outs = game.outs
    /\ game'.half = game.half
    /\ game'.inning = game.inning
    /\ game'.offensive_shooter_id = game.offensive_shooter_id
    /\ game'.offensive_drinker_id = game.offensive_drinker_id
    /\ game'.defensive_catcher_id = game.defensive_catcher_id
    /\ game'.defensive_drinker_id = game.defensive_drinker_id

\* C23 as stated: a knock leaves strikes, outs, half, inning and the four role
\* slots unchanged and changes none of the shooter's shot counters; of the
\* shooter's stats only points_for may change.
KnockChangesOnlyPointsFor ==
    [][ (Handled.req.kind = "knock" /\ Handled.code = 200) =>
          /\ KnockKeepsGame
          /\ \A c \in Counters \ {"points_for"} :
                Counter(stats', game.offensive_shooter_id, c)
                  = Counter(stats, game.offensive_shooter_id, c) ]_vars

\* C23 amended: a knock leaves strikes, outs, half, inning and the four role
\* slots unchanged and changes none of the shooter's shot counters; of the
\* shooter's stats only points_for may change, and the knocks_* counters when
\* the shooter is also the catcher.
KnockFrame ==
    [][ (Handled.req.kind = "knock" /\ Handled.code = 200) =>
          LET shooter == game.offensive_shooter_id
              own     == IF shooter = game.defensive_catcher_id
                         THEN {"points_for"} \cup KnockCounters
                         ELSE {"points_for"}
          IN /\ KnockKeepsGame
             /\ \A c \in ShotCounters :
                   Counter(stats', shooter, c) = Counter(stats, shooter, c)
             /\ \A c \in Counters \ own :
                   Counter(stats', shooter, c) = Counter(stats, shooter, c)
             /\ \A c \in Counters :
                   Counter(stats', shooter, c) >= Counter(stats, shooter, c) ]_vars

\* C23 witness: a knock was recorded while one player was shooter and catcher,
\* with a strike standing; the strike count stands, the player's knocks_first has
\* risen and the player's shots_taken has not.
KnockFrameWitness ==
    /\ served >= 2
    /\ history[Len(history)].req.kind = "knock"
    /\ history[Len(history)].code = 200
    /\ game.offensive_shooter_id = game.defensive_catcher_id
    /\ history[Len(history)].before.strikes = 1
    /\ game.strikes = 1
    /\ Counter(stats, game.offensive_shooter_id, "knocks_first") >= 1
    /\ Counter(stats, game.offensive_shooter_id, "shots_taken") = 1


\* The shot a bunt outcome is said to repeat.
ShotLike(outcome) == IF outcome = "success" THEN "first" ELSE "second"

\* C24: from every prior game state a bunt "success" leaves the bases, scores
\* and strikes a shot "first" from that state leaves, and a bunt "bonus" those
\* a shot "second" leaves; nothing else of the game row differs either.
BuntRepeatsShot ==
    [][ ( /\ Handled.req.kind = "bunt"
          /\ Handled.req.outcome \in {"success", "bonus"}
          /\ Handled.code = 200 ) =>
          /\ \A shot \in {Serve(Database, Shot(ShotLike(Handled.req.outcome)))} :
                shot.code = 200 =>
                   /\ Bases(game') = Bases(shot.game)
                   /\ game'.home_score = shot.game.home_score
                   /\ game'.away_score = shot.game.away_score
                   /\ game'.strikes = shot.game.strikes
                   /\ game' = shot.game
          /\ \A rule \in {ShotRule(ShotLike(Handled.req.outcome),
                                   [bases |-> Bases(game), runs |-> 0])} :
                /\ Bases(game') = rule.bases
                /\ BattingRuns(Handled) = rule.runs
                /\ FieldingRuns(Handled) = 0
                /\ game'.strikes = 0 ]_vars

\* C24 witness: a bunt "bonus" was recorded with runners on first and second and
\* a strike standing: the batter is on second, the runner from first on third,
\* one run is in and the strikes are 0, as after a shot "second".
BuntRepeatsShotWitness ==
    /\ served >= 1
    /\ history[Len(history)].req.kind = "bunt"
    /\ history[Len(history)].req.outcome = "bonus"
    /\ history[Len(history)].code = 200
    /\ history[Len(history)].before.first_base
    /\ history[Len(history)].before.second_base
    /\ ~history[Len(history)].before.third_base
    /\ history[Len(history)].before.strikes >= 1
    /\ Bases(game) = <<FALSE, TRUE, TRUE>>
    /\ game.strikes = 0
    /\ BattingRuns(history[Len(history)]) = 1


\* The defense participant of a steal or bunt: the payload's id or the role slot.
DefenseOf(req, g) == Participant(req.defense_id, g.defensive_drinker_id)

\* C25: from bases (f, s, t) a steal "success" leaves (FALSE, f, s) and scores
\* one run exactly when t was occupied; a steal "bonus" leaves (FALSE, FALSE, f)
\* and scores one run for each of s and t that was occupied; neither changes
\* outs or strikes, and the defense participant's catches_missed rises by 1.
StealAdvancesRunners ==
    [][ ( /\ Handled.req.kind = "steal"
          /\ Handled.req.outcome \in {"success", "bonus"}
          /\ Handled.code = 200 ) =>
          LET f == game.first_base
              s == game.second_base
              t == game.third_base
              defense == DefenseOf(Handled.req, game)
          IN /\ Handled.req.outcome = "success" =>
                  /\ Bases(game') = <<FALSE, f, s>>
                  /\ BattingRuns(Handled) = Bit(t)
             /\ Handled.req.outcome = "bonus" =>
                  /\ Bases(game') = <<FALSE, FALSE, f>>
                  /\ BattingRuns(Handled) = Bit(s) + Bit(t)
             /\ FieldingRuns(Handled) = 0
             /\ game'.outs = game.outs
             /\ game'.strikes = game.strikes
             /\ Counter(stats', defense, "catches_missed")
                  = Counter(stats, defense, "catches_missed") + 1 ]_vars

\* C25 witness: a steal "bonus" was recorded with the bases loaded and a strike
\* standing: only third is occupied, two runs are in, the strike stands and the
\* defensive drinker has a missed catch.
StealAdvancesRunnersWitness ==
    /\ served >= 1
    /\ history[Len(history)].req.kind = "steal"
    /\ history[Len(history)].req.outcome = "bonus"
    /\ history[Len(history)].code = 200
    /\ Bases(history[Len(history)].before) = <<TRUE, TRUE, TRUE>>
    /\ history[Len(history)].before.strikes >= 1
    /\ Bases(game) = <<FALSE, FALSE, TRUE>>
    /\ BattingRuns(history[Len(history)]) = 2
    /\ game.strikes = history[Len(history)].before.strikes
    /\ Counter(stats, game.defensive_drinker_id, "catches_missed") >= 1


\* C26: every counter of a stats row starts at 0 and no operation decreases a
\* counter of any row: a row, once there, stays, each of its counters is at
\* least what it was, and a row added by get_or_create_stats has all counters 0.
CountersOnlyIncrease ==
    [][ /\ DOMAIN stats \subseteq DOMAIN stats'
        /\ \A p \in Players : \A c \in Counters :
              Counter(stats', p, c) >= Counter(stats, p, c)
        /\ \A p \in Players \ DOMAIN stats :
              get_or_create_stats(OpenSession(Database), p).stats[p]
                 = [c \in Counters |-> 0] ]_vars

\* C26 witness: a player whose row had counts was involved again; the row is
\* the same row with a higher shots_taken and nothing lower, and another
\* player's row was created in the run with a counter at 1.
CountersOnlyIncreaseWitness ==
    /\ served >= 2
    /\ \E p \in DOMAIN origin.stats :
          /\ origin.stats[p].shots_taken >= 1
          /\ stats[p].shots_taken > origin.stats[p].shots_taken
          /\ \A c \in Counters : stats[p][c] >= origin.stats[p][c]
    /\ \E q \in DOMAIN stats \ DOMAIN origin.stats :
          \E c \in Counters : stats[q][c] = 1


\* C27: in a game that starts with outs = 0, outs between operations is only
\* ever 0 or 1: the second out resets outs to 0 inside the operation that
\* records it, so 2 is never stored.
OutsZeroOrOne ==
    /\ game.outs \in {0, 1}
    /\ \A i \in DOMAIN history :
         (history[i].out_calls = 1 /\ history[i].before.outs = 1)
             => history[i].after.outs = 0

\* C27 witness: the last two requests of the run each recorded an out, the
\* first leaving outs at 1 and the second, a shot out, leaving it at 0.
OutsZeroOrOneWitness ==
    /\ served >= 2
    /\ IsShot(history[Len(history)], "out")
    /\ history[Len(history) - 1].out_calls = 1
    /\ history[Len(history) - 1].after.outs = 1
    /\ game.outs = 0


\* The four role slots: shooter, offensive drinker, catcher, defensive drinker.
Slots(g) ==
    << g.offensive_shooter_id, g.offensive_drinker_id,
       g.defensive_catcher_id, g.defensive_drinker_id >>

\* The orders in which four occupants can fill four slots.
SlotOrders == Permutations(1..4)

\* The slots as the game was created.
InitialSlots == Slots(IF history = <<>> THEN game ELSE history[1].before)

\* The full rotations in the log.
FullRotations ==
    Cardinality({i \in DOMAIN events : /\ events[i].event_type = "rotation"
                                       /\ events[i].outcome = "full_rotation"})

\* With (a, b, c, d) the slots at creation: the four slots hold a permutation
\* of a, b, c, d; the two offensive slots hold {a, b} and the two defensive
\* slots {c, d} after an even number of full rotations, and the other way
\* round after an odd number.
PairsOnTheirSides ==
    LET now == Slots(game)
        a == InitialSlots[1]
        b == InitialSlots[2]
        c == InitialSlots[3]
        d == InitialSlots[4]
    IN /\ \E p \in SlotOrders : \A i \in 1..4 : now[i] = InitialSlots[p[i]]
       /\ {now[1], now[2]} \in {{a, b}, {c, d}}
       /\ IF FullRotations % 2 = 0
          THEN {now[1], now[2]} = {a, b} /\ {now[3], now[4]} = {c, d}
          ELSE {now[1], now[2]} = {c, d} /\ {now[3], now[4]} = {a, b}

\* C28: rotations only permute the occupants of the four role slots and keep
\* the pairs: before and after every step the slots hold a permutation of the
\* occupants at creation, one of the two initial pairs in the offensive slots
\* and the other in the defensive slots; the pairs trade sides in the steps
\* that log a full rotation and stay on their sides in all others.
RotationsKeepPairs ==
    [][ /\ PairsOnTheirSides
        /\ PairsOnTheirSides'
        /\ IF \E i \in DOMAIN NewRotations : NewRotations[i].outcome = "full_rotation"
           THEN /\ {game'.offensive_shooter_id, game'.offensive_drinker_id}
                     = {game.defensive_catcher_id, game.defensive_drinker_id}
                /\ {game'.defensive_catcher_id, game'.defensive_drinker_id}
                     = {game.offensive_shooter_id, game.offensive_drinker_id}
           ELSE /\ {game'.offensive_shooter_id, game'.offensive_drinker_id}
                     = {game.offensive_shooter_id, game.offensive_drinker_id}
                /\ {game'.defensive_catcher_id, game'.defensive_drinker_id}
                     = {game.defensive_catcher_id, game.defensive_drinker_id} ]_vars

\* C28 witness: four different players; the run's last request was the second
\* out of a half, and the log holds an odd number of full rotations: the pair
\* that began on defense bats, in exchanged slots or not.
RotationsKeepPairsWitness ==
    /\ served >= 2
    /\ Cardinality({InitialSlots[i] : i \in 1..4}) = 4
    /\ history[Len(history)].out_calls = 1
    /\ history[Len(history)].before.outs = 1
    /\ history[Len(history)].code = 200
    /\ FullRotations % 2 = 1
    /\ {game.offensive_shooter_id, game.offensive_drinker_id}
          = {InitialSlots[3], InitialSlots[4]}
    /\ Slots(game) # <<InitialSlots[3], InitialSlots[4], InitialSlots[1], InitialSlots[2]>>


\* The points_for of the rows of a set of players, added up.
RECURSIVE SumPointsFor(_, _)
SumPointsFor(st, rows) ==
    IF rows = {} THEN 0
    ELSE LET p == CHOOSE x \in rows : TRUE
         IN st[p].points_for + SumPointsFor(st, rows \ {p})

\* C29: in a game that began at 0-0 without stats rows, the points_for of all
\* stats rows add up to home_score + away_score after every operation.
PointsAddUpToScore ==
    /\ SumPointsFor(stats, DOMAIN stats) = game.home_score + game.away_score
    /\ \A i \in DOMAIN stat_keys : stat_keys[i] \in DOMAIN stats
    /\ DOMAIN stats \subseteq Range(stat_keys)

\* C29 witness: runs were scored in the run's last request, three runs at least
\* are on the board and two rows at least hold points.
PointsAddUpToScoreWitness ==
    /\ served >= 1
    /\ history[Len(history)].code = 200
    /\ BattingRuns(history[Len(history)]) >= 1
    /\ game.home_score + game.away_score >= 3
    /\ Cardinality({p \in DOMAIN stats : stats[p].points_for >= 1}) >= 2
    /\ SumPointsFor(stats, DOMAIN stats) = game.home_score + game.away_score


\* The records of one kind among the records a step added to the log.
NewRecords(kind) ==
    SelectSeq(Added(events, events'), LAMBDA e : e.event_type = kind)

\* C30: a successful record_shot, record_steal, record_bunt or record_knock
\* adds to the log exactly one record of its own kind and at most one rotation
\* record and nothing else; the rotation record, when there is one, comes
\* before the record of the event that caused it, in the log and in its
\* listing.
OneRecordRotationFirst ==
    [][ Handled.code = 200 =>
          LET added  == Added(events, events')
              listed == Added(list_events(Database), list_events([events |-> events']))
          IN /\ Len(NewRecords(Handled.req.kind)) = 1
             /\ Len(NewRotations) <= 1
             /\ Len(NewRotations) = Handled.out_calls
             /\ Len(added) = 1 + Len(NewRotations)
             /\ added[Len(added)].event_type = Handled.req.kind
             /\ listed = added
             /\ Len(added) = 2 =>
                   /\ added[1].event_type = "rotation"
                   /\ added[1].created_at < added[2].created_at ]_vars

\* C30 witness: a failed steal was the first out of a half; the log grew by a
\* swap_offense record followed by the steal's record, and the request before
\* it added its one record and no rotation.
OneRecordRotationFirstWitness ==
    /\ served >= 2
    /\ IsFail(history[Len(history)])
    /\ history[Len(history)].req.kind = "steal"
    /\ history[Len(history)].before.outs = 0
    /\ history[Len(history) - 1].code = 200
    /\ history[Len(history) - 1].out_calls = 0
    /\ Len(events) >= 3
    /\ events[Len(events)].event_type = "steal"
    /\ events[Len(events) - 1].event_type = "rotation"
    /\ events[Len(events) - 1].outcome = "swap_offense"
    /\ events[Len(events) - 2].event_type = history[Len(history) - 1].req.kind


\* The counter of each shot outcome.
ShotCounterOf ==
    [ first |-> "shots_first", second |-> "shots_second", third |-> "shots_third",
      home |-> "shots_home", grandslam |-> "shots_grandslam",
      strike |-> "shots_strike", out |-> "shots_out" ]

\* The outcome counters of a row, added up.
RECURSIVE SumCounters(_, _)
SumCounters(row, cs) ==
    IF cs = {} THEN 0
    ELSE LET c == CHOOSE x \in cs : TRUE
         IN row[c] + SumCounters(row, cs \ {c})

\* In every row shots_taken is the sum of the seven outcome counters.
ShotsTakenIsSum(st) ==
    \A p \in DOMAIN st :
        st[p].shots_taken = SumCounters(st[p], ShotCounters \ {"shots_taken"})

\* Every request so far was completed successfully.
AllCompleted(h) == \A i \in DOMAIN h : h[i].code = 200

\* C31: after operations that all completed successfully, shots_taken of every
\* stats row is the sum of its seven outcome counters; a successful shot adds 1
\* to shots_taken and to the counter of its outcome on the row of the player
\* who was the shooter when the operation began, rotation or not, and to no
\* shot counter of any other player.
ShotsCreditedToShooter ==
    [][ /\ AllCompleted(history) => ShotsTakenIsSum(stats)
        /\ AllCompleted(history') => ShotsTakenIsSum(stats')
        /\ (Handled.req.kind = "shot" /\ Handled.code = 200) =>
              LET shooter == OffenseOf(Handled.req, game)
                  own     == ShotCounterOf[Handled.req.outcome]
              IN /\ Counter(stats', shooter, "shots_taken")
                       = Counter(stats, shooter, "shots_taken") + 1
                 /\ Counter(stats', shooter, own) = Counter(stats, shooter, own) + 1
                 /\ \A c \in ShotCounters \ {"shots_taken", own} :
                       Counter(stats', shooter, c) = Counter(stats, shooter, c)
                 /\ \A p \in Players \ {shooter} : \A c \in ShotCounters :
                       Counter(stats', p, c) = Counter(stats, p, c) ]_vars

\* C31 witness: every request so far succeeded; the run's last request was a
\* shot "out" at no outs, so shooter and offensive drinker changed slots; the
\* out is on the row of the player who shot, now the drinker, and the player
\* who is now the shooter has none.
ShotsCreditedToShooterWitness ==
    /\ served >= 2
    /\ AllCompleted(history)
    /\ IsShot(history[Len(history)], "out")
    /\ history[Len(history)].req.offense_id = NoPlayer
    /\ history[Len(history)].before.outs = 0
    /\ game.offensive_shooter_id # game.offensive_drinker_id
    /\ game.offensive_drinker_id = history[Len(history)].before.offensive_shooter_id
    /\ Counter(stats, game.offensive_drinker_id, "shots_out") >= 1
    /\ Counter(stats, game.offensive_drinker_id, "shots_taken") >= 2
    /\ Counter(stats, game.offensive_shooter_id, "shots_out") = 0
    /\ ShotsTakenIsSum(stats)

=============================================================================
